---- MODULE Spec2Model ----
(***************************************************************************)
(* Live monitoring subsystem of telegram_parser_gui.py: the per-source     *)
(* poll loops (TelegramMonitor) and the registry of monitored groups kept  *)
(* by AdvancedTelegramParserGUI (telegram_groups, group_tree).             *)
(***************************************************************************)
EXTENDS Integers, Sequences, FiniteSets, TLC

\* ------------------------------------------------------------------ bounds
MaxMonitors == 2      \* TelegramMonitor instances alive at one time
MaxId == 2            \* update_ids the remote stream hands out
MaxFails == 2         \* ok:false answers of the scripted remote

\* --------------------------------------------------------------- constants
Names == {"a"}
ChatNums == {1, 2}                 \* chat ids as the API sends them (JSON numbers)
ChatStrs == {"1", "2"}             \* chat ids as typed into the dialog
NoToken == ""                      \* None or the empty string: both falsy
Tokens == {"tok"}
NoMessage == 0                     \* an update without a "message" key
NoGid == <<"", "">>
Unscripted == <<-1, -1>>           \* the remote answers as it likes

AppBackoff == 10                   \* time.sleep(10) after ok:false
HttpBackoff == 10                  \* time.sleep(10) after a non-200 status
NetBackoff == 15                   \* time.sleep(15) after RequestException
ExcBackoff == 10                   \* time.sleep(10) after any other exception
Pacing == 1                        \* time.sleep(1) closing every iteration

VARIABLES
    wiring,             \* status callback the registry hands to its monitors
    requests_ok,        \* the optional 'requests' import succeeded
    default_bot_token,  \* self.default_bot_token
    telegram_groups,    \* self.telegram_groups: id -> TelegramGroup
    order,              \* insertion order of the telegram_groups dict
    group_tree,         \* rows of self.group_tree: iid -> status column
    monitors,           \* TelegramMonitor instances and their poll threads
    ui,                 \* position of the Tk main thread
    stream,             \* remote update stream: update_id -> chat id
    confirmed,          \* highest update_id the remote regards as confirmed
    script,             \* scripted remote: <<ok:false answers planned, left>>
    hist,               \* observations per monitor (events, deliveries)
    delivered           \* <<group_id, update_id>> handed to message_callback so far

vars == <<wiring, requests_ok, default_bot_token, telegram_groups, order,
          group_tree, monitors, ui, stream, confirmed, script, hist, delivered>>

\* ----------------------------------------------------------------- helpers
Max(a, b) == IF a >= b THEN a ELSE b
Min(a, b) == IF a <= b THEN a ELSE b

RECURSIVE SeqMax(_)
SeqMax(s) == IF s = <<>> THEN 0 ELSE Max(Head(s).update_id, SeqMax(Tail(s)))

\* dict helpers
Empty == [x \in {} |-> 0]
Put(f, k, v) == [x \in DOMAIN f \cup {k} |-> IF x = k THEN v ELSE f[x]]
Del(f, k) == [x \in DOMAIN f \ {k} |-> f[x]]

\* str(n) of a chat id
Str(n) == CASE n = 1 -> "1" [] n = 2 -> "2" [] OTHER -> "None"

\* hashlib.md5(f"{name}-{chat_id}"): one identity per (name, chat_id)
GroupId(name, chat) == <<name, chat>>

TelegramGroup(name, chat, token) ==
    [name |-> name, chat_id |-> chat, bot_token |-> token,
     is_monitoring |-> FALSE, monitor_instance |-> 0]

Idle == [pc |-> "idle", mon |-> 0, op |-> "none", gid |-> NoGid, rest |-> <<>>]

Alive(mon) == mon.pc \notin {"unstarted", "crashed", "done"}

FreeSlots(G, M) == {m \in 1..MaxMonitors : m \notin DOMAIN M}

\* what an observer of one instance has seen: status events by kind, the
\* updates its fetches returned (got), the update_ids handed to
\* message_callback (out), the last answer and the error events of the
\* current iteration
NewHist == [startedEv |-> 0, stoppedEv |-> 0, iterErr |-> 0,
            got |-> <<>>, out |-> <<>>, resp |-> "none",
            had401 |-> FALSE, fetchAfter401 |-> FALSE]

\* a filter that looks for a message but not at its chat
RelevantAnyChat(mon, upd) == upd.chat # NoMessage

\* "message" in update and str(update["message"]["chat"]["id"]) == self.chat_id
Relevant(mon, upd) == upd.chat # NoMessage /\ Str(upd.chat) = mon.chat_id

\* ------------------------------------------------------------------- Init
Ids == {GroupId(n, c) : n \in Names, c \in ChatStrs}
Entries == [name : Names, chat_id : ChatStrs, bot_token : Tokens \cup {NoToken}]

\* telegram_groups.json as load_group_configurations accepts it: the
\* constructor survives only files whose entries have distinct identities
NoFile == <<>>
OneGroup == {<<e>> : e \in {x \in Entries : x.chat_id = "1"}}
TwoGroups == {<<e1, e2>> : e1 \in {x \in Entries : x.chat_id = "1"},
                            e2 \in {x \in Entries : x.chat_id = "2"}}

RECURSIVE LoadGroups(_)
LoadGroups(cfg) ==
    IF cfg = <<>> THEN Empty
    ELSE LET e == cfg[Len(cfg)]
         IN  Put(LoadGroups(SubSeq(cfg, 1, Len(cfg) - 1)),
                 GroupId(e.name, e.chat_id),
                 TelegramGroup(e.name, e.chat_id, e.bot_token))

\* AdvancedTelegramParserGUI.__init__ reading configuration file cfg
Construct(cfg, sc) ==
    /\ wiring \in {"feed", "contract"}
    /\ requests_ok \in BOOLEAN
    /\ default_bot_token \in Tokens \cup {NoToken}
    /\ telegram_groups = LoadGroups(cfg)
    /\ order = [i \in 1..Len(cfg) |-> GroupId(cfg[i].name, cfg[i].chat_id)]
    /\ group_tree = [g \in DOMAIN LoadGroups(cfg) |-> "Stopped"]
    /\ monitors = Empty
    /\ ui = Idle
    /\ stream = <<>>
    /\ confirmed = 0
    /\ script = sc
    /\ hist = Empty
    /\ delivered = {}

\* started on a configuration file holding one group
Init == \E cfg \in OneGroup : Construct(cfg, Unscripted)

\* started without a configuration file
InitRegistry == Construct(NoFile, Unscripted)

\* --------------------------------------------------- TelegramMonitor thread
\* instances still reachable: held by a registry entry, by the stop() the
\* main thread is in, or by their own live thread; the others are collected
Reachable(G, M, u) ==
    {m \in DOMAIN M :
        \/ Alive(M[m])
        \/ u.mon = m
        \/ \E g \in DOMAIN G : G[g].monitor_instance = m}
Restrict(f, D) == [x \in D |-> f[x]]

\* a cursor held by the class, not by the instance
ThreadStepSharedCursor(m, mon, h) ==
    LET M == [n \in DOMAIN monitors |->
                 IF n = m THEN mon
                 ELSE [monitors[n] EXCEPT !.last_update_id = mon.last_update_id]]
        keep == Reachable(telegram_groups, M, ui)
    IN  /\ monitors' = Restrict(M, keep)
        /\ hist' = Restrict([hist EXCEPT ![m] = h], keep)

\* a step of the poll thread of instance m leaving it as mon, observed as h
ThreadStep(m, mon, h) ==
    LET M == [monitors EXCEPT ![m] = mon]
        keep == Reachable(telegram_groups, M, ui)
    IN  /\ monitors' = Restrict(M, keep)
        /\ hist' = Restrict([hist EXCEPT ![m] = h], keep)

\* target of threading.Thread: entry of _poll_updates up to the while loop
PollBegin(m) ==
    /\ m \in DOMAIN monitors
    /\ monitors[m].pc = "begin"
    /\ ThreadStep(m, [monitors[m] EXCEPT !.pc =
                        IF wiring = "feed" THEN "crashed"
                        ELSE IF requests_ok THEN "loop" ELSE "done"],
                  hist[m])
    /\ UNCHANGED <<delivered, wiring, requests_ok, default_bot_token, telegram_groups,
                   order, group_tree, ui, stream, confirmed, script>>

\* the sleeps closing the iteration are over: `while self.running:` and the
\* call of requests.get
PollLoop(m) ==
    /\ m \in DOMAIN monitors
    /\ monitors[m].pc = "loop"
    /\ IF monitors[m].running
       THEN ThreadStep(m,
                [monitors[m] EXCEPT !.pc = "fetch",
                                    !.offset = monitors[m].last_update_id + 1,
                                    !.delay = 0],
                [hist[m] EXCEPT !.iterErr = 0, !.resp = "none",
                                !.fetchAfter401 = hist[m].had401])
       ELSE ThreadStep(m, [monitors[m] EXCEPT !.pc = "done", !.delay = 0],
                          hist[m])
    /\ UNCHANGED <<delivered, wiring, requests_ok, default_bot_token, telegram_groups,
                   order, group_tree, ui, stream, confirmed, script>>

\* what getUpdates answers to offset o: the unconfirmed updates from o on
Pending(o) ==
    LET lo == Max(o, confirmed + 1)
    IN  [i \in 1..Max(0, Len(stream) - lo + 1) |->
            [update_id |-> lo + i - 1, chat |-> stream[lo + i - 1]]]

\* answers the remote can give to a monitor
Answers(mon) ==
    IF script[2] > 0 THEN {"okfalse"}
    ELSE IF script[2] = 0 THEN {"ok"}
    ELSE IF mon.bot_token = NoToken THEN {"unauth", "http", "neterr"}
    ELSE {"ok", "okfalse", "unauth", "http", "neterr"}

\* the iteration ends in its sleeps: d seconds, e error events emitted
Sleeping(mon, h, kind, d, e) ==
    [mon |-> [mon EXCEPT !.pc = "loop", !.offset = 0, !.delay = d],
     h |-> [h EXCEPT !.iterErr = @ + e, !.resp = kind]]

\* an application error that ends the polling
OnAppErrorGiveUp(mon, h) ==
    [mon |-> [mon EXCEPT !.pc = "done", !.offset = 0, !.running = FALSE],
     h |-> [h EXCEPT !.iterErr = @ + 1, !.resp = "okfalse"]]

\* elif not data.get("ok"): one error event, time.sleep(10), then the
\* time.sleep(1) closing the iteration
OnAppError(mon, h) == Sleeping(mon, h, "okfalse", AppBackoff + Pacing, 1)

\* body of the try block once requests.get has returned or raised, up to
\* the sleeps or, for a non-empty result, up to the for loop
AfterFetch(mon, h, kind, result) ==
    IF kind = "neterr"
    THEN \* except requests.exceptions.RequestException
         Sleeping(mon, h, kind, NetBackoff + Pacing, 1)
    ELSE IF ~mon.running
    THEN \* if not self.running: break
         [mon |-> [mon EXCEPT !.pc = "done", !.offset = 0], h |-> h]
    ELSE IF kind = "ok"
    THEN IF result # <<>>
         THEN [mon |-> [mon EXCEPT !.pc = "batch", !.offset = 0, !.batch = result],
               h |-> [h EXCEPT !.resp = kind, !.got = @ \o result]]
         ELSE Sleeping(mon, h, "empty", Pacing, 0)
    ELSE IF kind = "okfalse"
    THEN OnAppError(mon, h)
    ELSE IF kind = "unauth"
    THEN \* status_callback(error), then self.stop() joins the current
         \* thread: RuntimeError, caught by `except Exception`
         LET r == Sleeping([mon EXCEPT !.running = FALSE], h, kind,
                           ExcBackoff + Pacing, 2)
         IN  [r EXCEPT !.h.had401 = TRUE]
    ELSE \* any other status code
         Sleeping(mon, h, kind, HttpBackoff + Pacing, 1)

\* requests.get returns or raises
PollFetchReturn(m, kind) ==
    /\ m \in DOMAIN monitors
    /\ monitors[m].pc = "fetch"
    /\ kind \in Answers(monitors[m])
    /\ script' = IF script[2] > 0 THEN <<script[1], script[2] - 1>> ELSE script
    /\ LET mon == monitors[m]
           r == AfterFetch(mon, hist[m], kind, Pending(mon.offset))
       IN  /\ ThreadStep(m, r.mon, r.h)
           /\ confirmed' = IF kind = "ok"
                           THEN Max(confirmed, Min(mon.offset - 1, Len(stream)))
                           ELSE confirmed
    /\ UNCHANGED <<delivered, wiring, requests_ok, default_bot_token, telegram_groups,
                   order, group_tree, ui, stream>>

\* a cursor that moves only on the updates handed to the consumer
AdvanceIfRelevant(mon, update) ==
    IF Relevant(mon, update) THEN update.update_id ELSE mon.last_update_id

\* self.last_update_id = update["update_id"]
Advance(mon, update) == update.update_id

\* one pass of `for update in data["result"]`; after the last one time.sleep(1)
PollUpdate(m) ==
    /\ m \in DOMAIN monitors
    /\ monitors[m].pc = "batch"
    /\ LET mon == monitors[m]
           update == Head(mon.batch)
           last == Tail(mon.batch) = <<>>
       IN  ThreadStep(m,
               [mon EXCEPT !.last_update_id = Advance(mon, update),
                           !.batch = Tail(mon.batch),
                           !.pc = IF last THEN "loop" ELSE "batch",
                           !.delay = IF last THEN Pacing ELSE 0],
               [hist[m] EXCEPT
                   !.out = IF Relevant(mon, update)
                           THEN Append(@, update.update_id) ELSE @])
    /\ delivered' = IF Relevant(monitors[m], Head(monitors[m].batch))
                    THEN delivered \cup {<<monitors[m].group_id,
                                            Head(monitors[m].batch).update_id>>}
                    ELSE delivered
    /\ UNCHANGED <<wiring, requests_ok, default_bot_token, telegram_groups,
                   order, group_tree, ui, stream, confirmed, script>>

\* a new update reaches the bot
Arrive(chat) ==
    /\ Len(stream) < MaxId
    /\ stream' = Append(stream, chat)
    /\ UNCHANGED <<delivered, wiring, requests_ok, default_bot_token, telegram_groups,
                   order, group_tree, monitors, ui, confirmed, script, hist>>

\* ------------------------------------------------ handlers of the main thread
\* the state a handler reads and writes, threaded through its statements;
\* raised: an exception left the handler, ok: the instance bound sufficed
Cur == [G |-> telegram_groups, O |-> order, T |-> group_tree, M |-> monitors,
        H |-> hist, ui |-> ui, raised |-> FALSE, ok |-> TRUE]

Commit(S) ==
    LET keep == Reachable(S.G, S.M, S.ui)
    IN  /\ telegram_groups' = S.G
        /\ order' = S.O
        /\ group_tree' = S.T
        /\ monitors' = Restrict(S.M, keep)
        /\ hist' = Restrict(S.H, keep)
        /\ ui' = S.ui

RemoveFrom(s, x) == SelectSeq(s, LAMBDA y : y # x)

TelegramMonitor(token, chat, gid) ==
    [bot_token |-> token, chat_id |-> chat, group_id |-> gid,
     running |-> FALSE, last_update_id |-> 0, pc |-> "unstarted",
     offset |-> 0, batch |-> <<>>, delay |-> 0]

\* TelegramMonitor.start()
MonitorStart(S, m) ==
    IF S.M[m].running THEN S
    ELSE LET S1 == [S EXCEPT !.M[m].running = TRUE,
                             !.M[m].last_update_id = 0,
                             !.M[m].pc = "begin"]
         IN  IF wiring = "feed"
             THEN [S1 EXCEPT !.raised = TRUE]
             ELSE [S1 EXCEPT !.H[m].startedEv = @ + 1]

\* _start_selected_monitoring with row g selected
StartSelected(S, g) ==
    IF g \in DOMAIN S.G /\ ~S.G[g].is_monitoring
    THEN LET free == FreeSlots(S.G, S.M)
         IN  IF free = {} THEN [S EXCEPT !.ok = FALSE]
             ELSE LET m == CHOOSE x \in free : \A y \in free : x <= y
                      group == S.G[g]
                      token == IF group.bot_token # NoToken
                               THEN group.bot_token ELSE default_bot_token
                      S1 == [S EXCEPT
                               !.M = Put(S.M, m, TelegramMonitor(token, group.chat_id, g)),
                               !.H = Put(S.H, m, NewHist),
                               !.G[g].monitor_instance = m]
                      S2 == MonitorStart(S1, m)
                  IN  IF S2.raised THEN S2
                      ELSE [S2 EXCEPT !.G[g].is_monitoring = TRUE,
                                      !.T[g] = "Running"]
    ELSE S

\* the for loop of _start_all_monitoring over the keys still to visit
RECURSIVE StartLoop(_, _)
StartLoop(S, rest) ==
    IF rest = <<>> THEN S
    ELSE LET S1 == StartSelected(S, Head(rest))
         IN  IF S1.raised \/ ~S1.ok THEN S1 ELSE StartLoop(S1, Tail(rest))

RECURSIVE StopLoop(_, _)
RECURSIVE MonitorStop(_, _, _, _, _)
RECURSIVE AfterStop(_, _, _, _, _)

MarkStopped(S, g) ==
    [S EXCEPT !.G[g].is_monitoring = FALSE, !.T[g] = "Stopped"]

\* TelegramMonitor.stop() once the join is over, then the rest of the
\* handler that called it
AfterStop(S, m, op, g, rest) ==
    IF wiring = "feed"
    THEN [S EXCEPT !.ui = Idle, !.raised = TRUE]
    ELSE LET S1 == [S EXCEPT !.H[m].stoppedEv = @ + 1, !.ui = Idle]
         IN  CASE op = "stop" -> MarkStopped(S1, g)
               [] op = "remove" -> [S1 EXCEPT !.T = Del(S1.T, g)]
               [] OTHER -> StopLoop(MarkStopped(S1, g), rest)

\* TelegramMonitor.stop() called by handler op: up to the join
MonitorStop(S, m, op, g, rest) ==
    LET S1 == [S EXCEPT !.M[m].running = FALSE]
    IN  IF Alive(S.M[m])
        THEN [S1 EXCEPT !.ui = [pc |-> "join", mon |-> m, op |-> op,
                                gid |-> g, rest |-> rest]]
        ELSE AfterStop(S1, m, op, g, rest)

\* _stop_selected_monitoring with row g selected, called by handler op
StopSelected(S, g, op, rest) ==
    IF /\ g \in DOMAIN S.G
       /\ S.G[g].is_monitoring
       /\ S.G[g].monitor_instance # 0
    THEN MonitorStop(S, S.G[g].monitor_instance, op, g, rest)
    ELSE IF op = "stop_all" THEN StopLoop(S, rest) ELSE S

\* the for loop of _stop_all_monitoring over the keys still to visit
StopLoop(S, rest) ==
    IF rest = <<>> THEN S
    ELSE StopSelected(S, Head(rest), "stop_all", Tail(rest))

\* save_action of the Add Group dialog
AddGroup(name, chat, token) ==
    /\ ui.pc = "idle"
    /\ LET id == GroupId(name, chat)
       IN  /\ telegram_groups' = Put(telegram_groups, id, TelegramGroup(name, chat, token))
           /\ order' = IF id \in DOMAIN telegram_groups THEN order ELSE Append(order, id)
           /\ group_tree' = IF id \in DOMAIN group_tree THEN group_tree
                            ELSE Put(group_tree, id, "Stopped")
    /\ UNCHANGED <<delivered, wiring, requests_ok, default_bot_token, monitors, ui,
                   stream, confirmed, script, hist>>

\* an edit that reaches into the instance bound to the entry
EditGroupLive(g, name, chat, token) ==
    /\ ui.pc = "idle"
    /\ g \in DOMAIN group_tree
    /\ g \in DOMAIN telegram_groups
    /\ telegram_groups' = [telegram_groups EXCEPT ![g].name = name,
                                                  ![g].chat_id = chat,
                                                  ![g].bot_token = token]
    /\ group_tree' = [group_tree EXCEPT ![g] =
                        IF telegram_groups[g].is_monitoring THEN "Running" ELSE "Stopped"]
    /\ monitors' = [m \in DOMAIN monitors |->
                       IF telegram_groups[g].monitor_instance = m
                       THEN [monitors[m] EXCEPT !.chat_id = chat]
                       ELSE monitors[m]]
    /\ UNCHANGED <<delivered, wiring, requests_ok, default_bot_token, order,
                   ui, stream, confirmed, script, hist>>

\* save_action of the Edit Group dialog opened on row g
EditGroup(g, name, chat, token) ==
    /\ ui.pc = "idle"
    /\ g \in DOMAIN group_tree
    /\ g \in DOMAIN telegram_groups
    /\ telegram_groups' = [telegram_groups EXCEPT ![g].name = name,
                                                  ![g].chat_id = chat,
                                                  ![g].bot_token = token]
    /\ group_tree' = [group_tree EXCEPT ![g] =
                        IF telegram_groups[g].is_monitoring THEN "Running" ELSE "Stopped"]
    /\ UNCHANGED <<delivered, wiring, requests_ok, default_bot_token, order, monitors,
                   ui, stream, confirmed, script, hist>>

\* _remove_selected_group with row g selected, up to telegram_groups.pop
RemoveGroup(g) ==
    /\ ui.pc = "idle"
    /\ g \in DOMAIN group_tree
    /\ g \in DOMAIN telegram_groups
    /\ Commit([Cur EXCEPT !.G = Del(telegram_groups, g),
                          !.O = RemoveFrom(order, g),
                          !.ui = [pc |-> "popped",
                                  mon |-> telegram_groups[g].monitor_instance,
                                  op |-> "remove", gid |-> g, rest |-> <<>>]])
    /\ UNCHANGED <<delivered, wiring, requests_ok, default_bot_token, stream, confirmed, script>>

\* _remove_selected_group after the pop: stop() of the bound instance, then
\* group_tree.delete
RemoveAfterPop ==
    /\ ui.pc = "popped"
    /\ LET S1 == [Cur EXCEPT !.ui = Idle]
       IN  IF ui.mon # 0
           THEN Commit(MonitorStop(S1, ui.mon, "remove", ui.gid, <<>>))
           ELSE Commit([S1 EXCEPT !.T = Del(group_tree, ui.gid)])
    /\ UNCHANGED <<delivered, wiring, requests_ok, default_bot_token, stream, confirmed, script>>

\* the Start Selected button
StartMonitoring(g) ==
    /\ ui.pc = "idle"
    /\ g \in DOMAIN group_tree
    /\ LET S == StartSelected(Cur, g)
       IN  S.ok /\ Commit(S)
    /\ UNCHANGED <<delivered, wiring, requests_ok, default_bot_token, stream, confirmed, script>>

\* the Stop Selected button
StopMonitoring(g) ==
    /\ ui.pc = "idle"
    /\ g \in DOMAIN group_tree
    /\ Commit(StopSelected(Cur, g, "stop", <<>>))
    /\ UNCHANGED <<delivered, wiring, requests_ok, default_bot_token, stream, confirmed, script>>

\* the Start All button
StartAll ==
    /\ ui.pc = "idle"
    /\ LET S == StartLoop(Cur, order)
       IN  S.ok /\ Commit(S)
    /\ UNCHANGED <<delivered, wiring, requests_ok, default_bot_token, stream, confirmed, script>>

\* the Stop All button
StopAll ==
    /\ ui.pc = "idle"
    /\ Commit(StopLoop(Cur, order))
    /\ UNCHANGED <<delivered, wiring, requests_ok, default_bot_token, stream, confirmed, script>>

\* thread.join(timeout=2) inside stop() returns: the thread ended or the
\* two seconds are over
JoinReturns ==
    /\ ui.pc = "join"
    /\ Commit(AfterStop(Cur, ui.mon, ui.op, ui.gid, ui.rest))
    /\ UNCHANGED <<delivered, wiring, requests_ok, default_bot_token, stream, confirmed, script>>

Poll ==
    \/ \E m \in 1..MaxMonitors : PollBegin(m)
    \/ \E m \in 1..MaxMonitors : PollLoop(m)
    \/ \E m \in 1..MaxMonitors :
          \E k \in {"ok", "okfalse", "unauth", "http", "neterr"} : PollFetchReturn(m, k)
    \/ \E m \in 1..MaxMonitors : PollUpdate(m)

Control ==
    \/ \E g \in Ids : StartMonitoring(g)
    \/ \E g \in Ids : StopMonitoring(g)
    \/ StartAll
    \/ StopAll
    \/ JoinReturns

Manage ==
    \/ \E n \in Names, c \in ChatStrs, t \in Tokens \cup {NoToken} : AddGroup(n, c, t)
    \/ \E g \in Ids, n \in Names, c \in ChatStrs, t \in Tokens \cup {NoToken} :
          EditGroup(g, n, c, t)
    \/ \E g \in Ids : RemoveGroup(g)
    \/ RemoveAfterPop

\* one configured source, its poll loops and the remote stream
Next ==
    \/ Control
    \/ \E g \in Ids : RemoveGroup(g)
    \/ RemoveAfterPop
    \/ Poll
    \/ \E c \in ChatNums \cup {NoMessage} : Arrive(c)

Spec == Init /\ [][Next]_vars

\* a step of the poll thread of instance m, the answer of the remote included
PollStep(m) ==
    \/ PollBegin(m)
    \/ PollLoop(m)
    \/ \E k \in {"ok", "okfalse", "unauth", "http", "neterr"} : PollFetchReturn(m, k)
    \/ PollUpdate(m)

\* one configured source started on a remote scripted to answer ok:false a
\* number of times and to succeed afterwards; nobody stops the loop
InitRetry == \E cfg \in OneGroup, n \in 0..MaxFails : Construct(cfg, <<n, n>>)

NextRetry ==
    \/ \E g \in Ids : StartMonitoring(g)
    \/ Poll
    \/ \E c \in ChatNums \cup {NoMessage} : Arrive(c)

\* threads are scheduled, sleeps end and the scripted remote answers
SpecRetry ==
    /\ InitRetry
    /\ [][NextRetry]_vars
    /\ \A m \in 1..MaxMonitors : WF_vars(PollStep(m))

\* two configured sources; the remote never answers the fetches of the first
\* and answers those of the second with success
HungGid == GroupId("a", "1")
ServedGid == GroupId("a", "2")

InitTwo == \E cfg \in TwoGroups : Construct(cfg, <<0, 0>>)

PollFetchReturnServed(m, kind) ==
    /\ m \in DOMAIN monitors
    /\ monitors[m].group_id # HungGid
    /\ PollFetchReturn(m, kind)

PollStepServed(m) ==
    \/ PollBegin(m)
    \/ PollLoop(m)
    \/ \E k \in {"ok", "okfalse", "unauth", "http", "neterr"} : PollFetchReturnServed(m, k)
    \/ PollUpdate(m)

NextTwo ==
    \/ \E g \in Ids : StartMonitoring(g)
    \/ StartAll
    \/ \E m \in 1..MaxMonitors : PollStepServed(m)
    \/ \E c \in ChatNums \cup {NoMessage} : Arrive(c)

\* the threads of the served source are scheduled and its fetches answered;
\* nothing is assumed of the hung one
SpecTwo ==
    /\ InitTwo
    /\ [][NextTwo]_vars
    /\ \A m \in 1..MaxMonitors :
          WF_vars(m \in DOMAIN monitors /\ monitors[m].group_id = ServedGid
                  /\ PollStepServed(m))

\* the registry edited from the dialogs while sources are started and
\* stopped; the application was started without a configuration file, no
\* update reaches the bot and the remote answers every fetch with success;
\* requests is installed and the default token comes from the environment
InitManage ==
    /\ Construct(NoFile, <<0, 0>>)
    /\ requests_ok
    /\ default_bot_token \in Tokens

NextRegistry ==
    \/ Manage
    \/ \E g \in Ids : StartMonitoring(g)
    \/ \E g \in Ids : StopMonitoring(g)
    \/ JoinReturns
    \/ \E m \in 1..MaxMonitors : PollBegin(m)
    \/ \E m \in 1..MaxMonitors : PollLoop(m)
    \/ \E m \in 1..MaxMonitors :
          \E k \in {"ok", "okfalse", "unauth", "http", "neterr"} : PollFetchReturn(m, k)

SpecRegistry == InitManage /\ [][NextRegistry]_vars

\* one configured source edited from the dialog while it is started and
\* stopped; the remote answers every fetch with success
InitEdit ==
    /\ \E cfg \in OneGroup : Construct(cfg, <<0, 0>>)
    /\ requests_ok
    /\ default_bot_token \in Tokens

NextEdit ==
    \/ \E g \in Ids, n \in Names, c \in ChatStrs, t \in Tokens \cup {NoToken} :
          EditGroup(g, n, c, t)
    \/ \E g \in Ids : StartMonitoring(g)
    \/ \E g \in Ids : StopMonitoring(g)
    \/ JoinReturns
    \/ Poll
    \/ \E c \in ChatNums \cup {NoMessage} : Arrive(c)

SpecEdit == InitEdit /\ [][NextEdit]_vars

\* ------------------------------------------------------------------ claims
\* an update that carries a message of the chat the instance watches
ClaimRelevant(mon, u) == u.chat \in ChatNums /\ Str(u.chat) = mon.chat_id

RECURSIVE ClaimDeliveries(_, _)
ClaimDeliveries(mon, s) ==
    IF s = <<>> THEN <<>>
    ELSE (IF ClaimRelevant(mon, Head(s)) THEN <<Head(s).update_id>> ELSE <<>>)
         \o ClaimDeliveries(mon, Tail(s))

Increasing(s) == \A i, j \in 1..Len(s) : i < j => s[i] < s[j]

BatchDone(m) == monitors[m].pc = "loop" /\ hist[m].resp = "ok"

\* C1: once a poll loop has processed a fetched batch its cursor equals the
\* largest update_id of that batch and of all earlier batches of the run,
\* whether or not updates of it were filtered out.
C1_CursorIsMaxSeen ==
    \A m \in DOMAIN monitors :
        BatchDone(m) => monitors[m].last_update_id = SeqMax(hist[m].got)

\* a batch whose last update was filtered out has been processed after a
\* delivery: the cursor stands on the filtered update
C1_Witness ==
    \E m \in DOMAIN monitors :
        /\ BatchDone(m)
        /\ Len(hist[m].got) = 2
        /\ hist[m].out = <<1>>
        /\ ~ClaimRelevant(monitors[m], hist[m].got[2])
        /\ monitors[m].last_update_id = 2

\* C2: within a run message_callback is invoked exactly once for each
\* fetched update carrying a message of the target chat (chat ids compared
\* as strings), for no other update, in the order of the fetch responses;
\* every fetch asks for offset = cursor + 1.
C2_DeliversRelevantInOrder ==
    \A m \in DOMAIN monitors :
        /\ hist[m].out \o ClaimDeliveries(monitors[m], monitors[m].batch)
              = ClaimDeliveries(monitors[m], hist[m].got)
        /\ Increasing(hist[m].out)
        /\ monitors[m].pc = "fetch"
              => monitors[m].offset = monitors[m].last_update_id + 1

\* two updates of the target chat were delivered one after the other
C2_Witness ==
    \E m \in DOMAIN monitors : BatchDone(m) /\ hist[m].out = <<1, 2>>


\* the registry entry of g is bound to an instance whose running flag is set
BoundRunning(g) ==
    /\ g \in DOMAIN telegram_groups
    /\ telegram_groups[g].monitor_instance \in DOMAIN monitors
    /\ monitors[telegram_groups[g].monitor_instance].running

\* C3: starting a source whose poll loop is already running is a no-op: the
\* registry entry, the bound instance and its cursor are unchanged, no
\* second poll thread is created and no status event is emitted.
C3_StartRunningIsNoOp ==
    [][\A g \in Ids :
          (BoundRunning(g) /\ (StartMonitoring(g) \/ StartAll))
             => /\ telegram_groups'[g] = telegram_groups[g]
                /\ \A m \in DOMAIN monitors' \ DOMAIN monitors :
                      monitors'[m].group_id # g
                /\ LET m == telegram_groups[g].monitor_instance
                   IN  /\ m \in DOMAIN monitors'
                       /\ monitors'[m] = monitors[m]
                       /\ hist'[m] = hist[m]]_vars

\* C4: stopping a loop that is already stopped is a no-op: no further
\* 'Monitoring stopped.' event follows the one of the original stop.
C4_StopStoppedIsNoOp ==
    \A m \in DOMAIN monitors : hist[m].stoppedEv <= 1

\* C5: on HTTP 401 the loop stops exactly once, fetches no more and emits
\* exactly one error event for the failure.
C5_AuthFailureOneError ==
    \A m \in DOMAIN monitors :
        hist[m].had401 => /\ ~monitors[m].running
                          /\ ~hist[m].fetchAfter401
                          /\ hist[m].iterErr = 1

\* C6: once a loop has ended on HTTP 401 the registry shows its source as
\* stopped: is_monitoring False and the status column 'Stopped'.
C6_RegistryReflectsAuthStop ==
    \A g \in DOMAIN telegram_groups :
        LET m == telegram_groups[g].monitor_instance
        IN  (m \in DOMAIN monitors /\ hist[m].had401 /\ monitors[m].pc = "done")
               => /\ ~telegram_groups[g].is_monitoring
                  /\ group_tree[g] = "Stopped"

\* C9: starting a source without a credential (no token of its own, no
\* default token) fails at once: no instance is created for it.
C9_NoMonitorWithoutCredential ==
    \A m \in DOMAIN monitors : monitors[m].bot_token # NoToken


Slots == 1..MaxMonitors
Range(s) == {s[i] : i \in 1..Len(s)}

\* instance m is in its while loop with the running flag set
Polling(m) ==
    /\ m \in DOMAIN monitors
    /\ monitors[m].pc \in {"loop", "fetch", "batch"}
    /\ monitors[m].running

\* update i of the remote stream is for the chat of m and beyond its cursor
Awaited(m, i) ==
    /\ Polling(m)
    /\ i <= Len(stream)
    /\ i > monitors[m].last_update_id
    /\ ClaimRelevant(monitors[m], [update_id |-> i, chat |-> stream[i]])

Delivered(m, i) == m \in DOMAIN monitors /\ i \in Range(hist[m].out)

AfterAppError(m) ==
    /\ m \in DOMAIN monitors
    /\ hist[m].resp = "okfalse"
    /\ monitors[m].pc # "fetch"

\* C7: each ok:false answer makes the loop emit one error event, pause for
\* the application-error backoff and fetch again without ever stopping; when
\* the remote succeeds after N such answers the messages of the target
\* chat are handed to message_callback.
C7_RetriesAfterAppError ==
    /\ [](\A m \in Slots :
            AfterAppError(m) => /\ monitors[m].pc = "loop"
                                /\ monitors[m].running
                                /\ hist[m].iterErr = 1
                                /\ monitors[m].delay = AppBackoff + Pacing)
    /\ \A m \in Slots :
          AfterAppError(m) ~> (m \in DOMAIN monitors /\ monitors[m].pc = "fetch")
    /\ \A m \in Slots, i \in 1..MaxId : Awaited(m, i) ~> Delivered(m, i)

\* the scripted number of ok:false answers is used up and a message that
\* arrived was delivered
C7_Witness ==
    /\ script = <<MaxFails, 0>>
    /\ \E m \in DOMAIN monitors : hist[m].out # <<>> /\ Polling(m)

\* C8: while the fetch of source A never returns, the loop of source B keeps
\* fetching, advancing its own cursor and delivering its messages; a step
\* of one loop touches no state of the other (no shared cursor or flag).
C8_IndependentLoops ==
    /\ [][\A m \in DOMAIN monitors :
            PollStep(m) => \A n \in DOMAIN monitors \ {m} :
                              /\ n \in DOMAIN monitors'
                              /\ monitors'[n] = monitors[n]
                              /\ hist'[n] = hist[n]]_vars
    /\ \A m \in Slots, i \in 1..MaxId :
          (Awaited(m, i) /\ monitors[m].group_id = ServedGid) ~> Delivered(m, i)

\* the loop of A sits in its fetch, the loop of B has delivered a message
\* and moved its cursor
C8_Witness ==
    \E a, b \in DOMAIN monitors :
        /\ monitors[a].group_id = HungGid /\ monitors[a].pc = "fetch"
        /\ monitors[b].group_id = ServedGid /\ hist[b].out # <<>>
        /\ monitors[b].last_update_id > monitors[a].last_update_id

\* C10: start_all applies start to every registered source: a failure of
\* one start leaves no other source unvisited.
C10_StartAllVisitsEverySource ==
    [][StartAll => \A g \in DOMAIN telegram_groups' :
                      telegram_groups'[g].monitor_instance # 0]_vars

\* instance m is the one bound to the registry entry of its group_id
Bound(m) ==
    /\ monitors[m].group_id \in DOMAIN telegram_groups
    /\ telegram_groups[monitors[m].group_id].monitor_instance = m

\* C11: whatever registry operations were applied, at most one instance
\* with running True exists per source identity, and every instance with
\* running True is the one bound to the registry entry of its identity.
C11_OneRunningPerIdentity ==
    \A m \in DOMAIN monitors :
        monitors[m].running =>
            /\ Bound(m)
            /\ \A n \in DOMAIN monitors :
                  (monitors[n].running /\ monitors[n].group_id = monitors[m].group_id)
                     => n = m

\* C12: remove stops the loop of a source before its registry entry goes:
\* in no state, during or after a remove, is the entry of an identity gone
\* while an instance of that identity still has running True.
C12_StoppedBeforeEntryGone ==
    \A m \in DOMAIN monitors :
        monitors[m].running => monitors[m].group_id \in DOMAIN telegram_groups

\* C13: an edit of a source leaves every TelegramMonitor as it was (token,
\* chat id, group id, cursor, running flag, position of its thread) and
\* leaves the key, the binding and the flag of the entry alone; the edited
\* values reach a loop only when a later start creates it.
C13_EditLeavesLoopAlone ==
    /\ [][\A g \in Ids, n \in Names, c \in ChatStrs, t \in Tokens \cup {NoToken} :
            EditGroup(g, n, c, t)
               => /\ monitors' = monitors
                  /\ hist' = hist
                  /\ DOMAIN telegram_groups' = DOMAIN telegram_groups
                  /\ order' = order
                  /\ telegram_groups'[g].monitor_instance
                        = telegram_groups[g].monitor_instance
                  /\ telegram_groups'[g].is_monitoring
                        = telegram_groups[g].is_monitoring]_vars
    /\ [][\A g \in Ids :
            StartMonitoring(g)
               => \A m \in DOMAIN monitors' \ DOMAIN monitors :
                     /\ monitors'[m].group_id = g
                     /\ monitors'[m].chat_id = telegram_groups[g].chat_id
                     /\ monitors'[m].bot_token \in
                           {telegram_groups[g].bot_token, default_bot_token}]_vars

\* a loop that has delivered a message goes on with the chat id it was
\* created with after its source was edited to another one
C13_Witness ==
    \E g \in DOMAIN telegram_groups :
        LET m == telegram_groups[g].monitor_instance
        IN  /\ m \in DOMAIN monitors
            /\ monitors[m].running
            /\ monitors[m].last_update_id > 0
            /\ hist[m].out # <<>>
            /\ monitors[m].chat_id # telegram_groups[g].chat_id

\* instance m hands an update to message_callback in this step
Delivers(m) ==
    /\ m \in DOMAIN monitors
    /\ m \in DOMAIN monitors'
    /\ Len(hist'[m].out) > Len(hist[m].out)

\* C14: a loop started after a stop does not replay history: no update is
\* handed to message_callback that an earlier loop of the same source has
\* already handed over.
C14_NoReplayAfterRestart ==
    [][\A m \in 1..MaxMonitors :
          Delivers(m) => <<monitors[m].group_id, Head(monitors[m].batch).update_id>>
                            \notin delivered]_vars

\* C15: no poll thread ends with an uncaught exception, and an iteration
\* that failed (ok:false, non-200 status, transport error) has reported
\* the failure as an error event before the loop sleeps and retries.
C15_NoUncaughtFailure ==
    \A m \in DOMAIN monitors :
        /\ monitors[m].pc # "crashed"
        /\ (monitors[m].pc = "loop"
              /\ hist[m].resp \in {"okfalse", "http", "neterr", "unauth"})
               => hist[m].iterErr >= 1

\* C16: with the callbacks the registry passes to its monitors, a start of
\* an idle source leaves a running instance bound to it, is_monitoring
\* True and the label 'Running'; a stop of a running source leaves
\* is_monitoring False and the label 'Stopped'.
C16_WiredStartAndStop ==
    [][\A g \in DOMAIN telegram_groups :
          /\ (wiring = "feed" /\ StartMonitoring(g)
                 /\ ~telegram_groups[g].is_monitoring)
                => /\ telegram_groups'[g].is_monitoring
                   /\ group_tree'[g] = "Running"
                   /\ BoundRunning(g)'
          /\ (wiring = "feed" /\ (StopMonitoring(g) \/ JoinReturns)
                 /\ ui' = Idle /\ telegram_groups[g].is_monitoring)
                => /\ ~telegram_groups'[g].is_monitoring
                   /\ group_tree'[g] = "Stopped"]_vars

\* C17: stop() of a loop whose thread is blocked in a fetch completes only
\* after that fetch has returned or timed out: the join never returns
\* while the thread is still inside requests.get.
C17_StopWaitsForFetch ==
    [][JoinReturns => monitors[ui.mon].pc # "fetch"]_vars

\* C18: an instance is either Idle (running False, no poll thread of it
\* executing) or Polling (running True, its poll thread alive): running
\* is never True with the thread terminated, and outside a stop() in
\* progress or the wind-down after HTTP 401 the thread is never alive with
\* running False.
C18_IdleOrPolling ==
    \A m \in DOMAIN monitors :
        /\ monitors[m].running => Alive(monitors[m])
        /\ (~monitors[m].running /\ ui.mon # m /\ ~hist[m].had401)
              => ~Alive(monitors[m])

\* C19: once stop() has returned for an instance (its 'Monitoring stopped.'
\* event was emitted), that instance hands no update to message_callback.
C19_NoDeliveryAfterStop ==
    [][\A m \in 1..MaxMonitors :
          (m \in DOMAIN monitors /\ hist[m].stoppedEv >= 1) => ~Delivers(m)]_vars

====
